---- MODULE Spec2Model ----
(***************************************************************************)
(* Model of the prompt-variable tester (src/app3.py) and of the best-of-N  *)
(* evaluator (src/best_of_n.py): definition parser, combination expander,  *)
(* template renderer, special variable resolver, batch caller and session  *)
(* logger.                                                                 *)
(*                                                                         *)
(* A Python str is a sequence of one-character strings.  A Python dict is  *)
(* a sequence of [k, v] records in insertion order with unique keys.  A    *)
(* Python value is a record with a "type" field: "str" and "int" are the   *)
(* plain scalars, every other type is one of the program's dict values.    *)
(***************************************************************************)
EXTENDS Integers, Sequences, FiniteSets, TLC

VARIABLES
    pc,               \* position of the run
    app,              \* which application's functions run: "best_of_n" or "app3"
    var_definitions,  \* the definitions string given to parse_variable_definitions
    variables,        \* the parsed mapping (dict name -> value)
    fs,               \* the host filesystem seen by expand_variables
    combinations,     \* what expand_variables returned
    template,         \* the prompt template
    rendered,         \* render_template's result, one per combination
    eval_prompt_template,  \* the evaluation template
    eval_variables,        \* the parsed evaluation mapping
    rendered_prompt,       \* the rendered initial prompt
    outputs,               \* the outputs of the initial runs
    eval_rendered_prompt,  \* what process_special_variables returned
    prompt,           \* the prompt given to batch_call_llm
    num_runs,         \* the number of runs asked of batch_call_llm
    batch_results,    \* the local list batch_results
    requests,         \* the requests the model service has received, with their outcome
    returned,         \* what batch_call_llm returned
    log_file,         \* the path given to log_session
    log_store,        \* what the filesystem holds at log_file
    session_data,     \* the session_data of the last call of log_session
    timestamp,        \* the local time of the last call of log_session
    log_writes,       \* the calls of log_session so far
    log_warned,       \* the last call surfaced "Error opening log file"
    log_raised,       \* the last call raised
    api_key,          \* the credential the operator entered
    max_iterations,   \* app3: the most combinations to process
    append_datetime,  \* the operator's choice for the log file name
    eval_var_definitions,  \* best_of_n: the definitions string of the evaluation
    processed,        \* the combinations main goes on to process
    truncation_warned,     \* main surfaced the warning that it limits the combinations
    run_data,         \* the prompt/output records main has collected
    eval_output       \* best_of_n: the response to the evaluation prompt

runVars == <<var_definitions, variables, fs, combinations, template, rendered>>

evalVars == <<eval_prompt_template, eval_variables, rendered_prompt, outputs,
              eval_rendered_prompt>>

batchVars == <<prompt, num_runs, batch_results, requests, returned>>

logVars == <<log_file, log_store, session_data, timestamp, log_writes, log_warned,
             log_raised>>

mainVars == <<api_key, max_iterations, append_datetime, eval_var_definitions, processed,
              truncation_warned, run_data, eval_output>>

vars == <<pc, app, runVars, evalVars, batchVars, logVars, mainVars>>

---------------------------------------------------------------------------
(* Python str operations *)

Letters ==
    {"a","b","c","d","e","f","g","h","i","j","k","l","m","n","o","p","q","r","s","t",
     "u","v","w","x","y","z","A","B","C","D","E","F","G","H","I","J","K","L","M","N",
     "O","P","Q","R","S","T","U","V","W","X","Y","Z"}

Digits == <<"0","1","2","3","4","5","6","7","8","9">>

DigitSet == {Digits[i] : i \in 1..Len(Digits)}

WhiteSpace == {" ", "\t", "\n", "\r"}

RECURSIVE Concat(_)
Concat(ss) == IF ss = <<>> THEN <<>> ELSE Head(ss) \o Concat(Tail(ss))

\* s[i:i+len(p)] == p
MatchesAt(s, p, i) ==
    /\ i >= 1
    /\ i + Len(p) - 1 <= Len(s)
    /\ \A j \in 1..Len(p) : s[i + j - 1] = p[j]

\* s.startswith(p)
StartsWith(s, p) == MatchesAt(s, p, 1)

\* s.endswith(p)
EndsWith(s, p) == MatchesAt(s, p, Len(s) - Len(p) + 1)

\* p in s
Contains(s, p) == \E i \in 1..(Len(s) + 1) : MatchesAt(s, p, i)

RECURSIVE LStrip(_)
LStrip(s) == IF s # <<>> /\ Head(s) \in WhiteSpace THEN LStrip(Tail(s)) ELSE s

RECURSIVE RStrip(_)
RStrip(s) ==
    IF s # <<>> /\ s[Len(s)] \in WhiteSpace THEN RStrip(SubSeq(s, 1, Len(s) - 1)) ELSE s

\* s.strip()
Strip(s) == RStrip(LStrip(s))

\* s.replace(old, new) for a non-empty old: leftmost, non-overlapping, one pass
\* the first index from i on at which old occurs in s, Len(s) + 1 when none
NextMatch(s, old, i) ==
    IF \E j \in i..Len(s) : MatchesAt(s, old, j)
    THEN CHOOSE j \in i..Len(s) :
             MatchesAt(s, old, j) /\ \A k \in i..(j - 1) : ~MatchesAt(s, old, k)
    ELSE Len(s) + 1

RECURSIVE ReplaceFrom(_, _, _, _)
ReplaceFrom(s, old, new, i) ==
    LET j == NextMatch(s, old, i)
    IN IF j > Len(s) THEN SubSeq(s, i, Len(s))
       ELSE SubSeq(s, i, j - 1) \o new \o ReplaceFrom(s, old, new, j + Len(old))

Replace(s, old, new) == ReplaceFrom(s, old, new, 1)

\* s.split(sep) for a one-character sep
RECURSIVE SplitFrom(_, _, _, _)
SplitFrom(s, sep, i, cur) ==
    IF i > Len(s) THEN <<cur>>
    ELSE IF s[i] = sep THEN <<cur>> \o SplitFrom(s, sep, i + 1, <<>>)
    ELSE SplitFrom(s, sep, i + 1, Append(cur, s[i]))

Split(s, sep) == SplitFrom(s, sep, 1, <<>>)

\* str(n) for n >= 0
RECURSIVE IntToStr(_)
IntToStr(n) ==
    IF n < 10 THEN <<Digits[n + 1]>> ELSE IntToStr(n \div 10) \o <<Digits[(n % 10) + 1]>>

DigitVal(c) == CHOOSE d \in 0..9 : Digits[d + 1] = c

RECURSIVE StrToInt(_)
StrToInt(s) ==
    IF Len(s) = 1 THEN DigitVal(s[1])
    ELSE 10 * StrToInt(SubSeq(s, 1, Len(s) - 1)) + DigitVal(s[Len(s)])

---------------------------------------------------------------------------
(* Python values and dicts *)

StrVal(s) == [type |-> "str", s |-> s]

IntVal(n) == [type |-> "int", n |-> n]

\* isinstance(value, dict)
IsDict(v) == v.type \notin {"str", "int"}

\* str(value) of a plain scalar
PyStr(v) == IF v.type = "int" THEN IntToStr(v.n) ELSE v.s

DictHas(d, k) == \E i \in 1..Len(d) : d[i].k = k

DictGet(d, k) == d[CHOOSE i \in 1..Len(d) : d[i].k = k].v

\* d[k] = v: an existing key keeps its position
DictSet(d, k, v) ==
    IF DictHas(d, k)
    THEN [i \in 1..Len(d) |-> IF d[i].k = k THEN [k |-> k, v |-> v] ELSE d[i]]
    ELSE Append(d, [k |-> k, v |-> v])

DictKeys(d) == {d[i].k : i \in 1..Len(d)}

---------------------------------------------------------------------------
(* parse_variable_definitions *)

IsNameStart(c) == c \in Letters \cup {"_"}

IsNameChar(c) == IsNameStart(c) \/ c \in DigitSet

\* first index >= i that holds no name character
RECURSIVE NameEnd(_, _)
NameEnd(s, i) == IF i <= Len(s) /\ IsNameChar(s[i]) THEN NameEnd(s, i + 1) ELSE i

\* first index >= i that holds no whitespace
RECURSIVE SkipSpace(_, _)
SkipSpace(s, i) == IF i <= Len(s) /\ s[i] \in WhiteSpace THEN SkipSpace(s, i + 1) ELSE i

\* first index >= i that holds a comma, Len(s) + 1 when there is none
RECURSIVE NextComma(_, _)
NextComma(s, i) == IF i <= Len(s) /\ s[i] # "," THEN NextComma(s, i + 1) ELSE i

NoMatch == [found |-> FALSE]

\* the pattern ([a-zA-Z_][a-zA-Z0-9_]*)\s*=\s*([^,]+)(?:,|$) tried at index i:
\* group 1 is the name, group 2 runs to the next comma whatever encloses it
MatchAt(s, i) ==
    IF i > Len(s) \/ ~IsNameStart(s[i]) THEN NoMatch
    ELSE LET j == NameEnd(s, i + 1)
             k == SkipSpace(s, j)
         IN IF k > Len(s) \/ s[k] # "=" THEN NoMatch
            ELSE LET e == NextComma(s, k + 1)
                 IN IF e = k + 1 THEN NoMatch
                    ELSE [found |-> TRUE,
                          name  |-> SubSeq(s, i, j - 1),
                          value |-> SubSeq(s, k + 1, e - 1),
                          end   |-> IF e <= Len(s) THEN e + 1 ELSE e]

\* re.finditer(pattern, s) from index pos on: the matches, left to right
RECURSIVE FindIter(_, _)
FindIter(s, pos) ==
    IF pos > Len(s) THEN <<>>
    ELSE LET m == MatchAt(s, pos)
         IN IF m.found THEN <<m>> \o FindIter(s, m.end) ELSE FindIter(s, pos + 1)

\* a JSON string without escapes, or a non-negative JSON integer
JsonIsString(t) ==
    /\ Len(t) >= 2
    /\ t[1] = "\"" /\ t[Len(t)] = "\""
    /\ \A i \in 2..(Len(t) - 1) : t[i] \notin {"\"", "\\", "\n", "\r", "\t"}

JsonIsInt(t) ==
    /\ Len(t) >= 1
    /\ \A i \in 1..Len(t) : t[i] \in DigitSet
    /\ (Len(t) > 1 => t[1] # "0")

JsonIsScalar(t) == JsonIsString(t) \/ JsonIsInt(t)

JsonScalar(t) ==
    IF JsonIsString(t) THEN StrVal(SubSeq(t, 2, Len(t) - 1)) ELSE IntVal(StrToInt(t))

\* json.loads(text) on texts made of brackets, commas, whitespace, unescaped
\* strings and non-negative integers: [ok, is_list, elements]
JsonLoads(text) ==
    LET t == Strip(text)
    IN IF Len(t) >= 2 /\ t[1] = "[" /\ t[Len(t)] = "]"
       THEN LET inner == Strip(SubSeq(t, 2, Len(t) - 1))
                items == Split(inner, ",")
            IN IF inner = <<>> THEN [ok |-> TRUE, is_list |-> TRUE, elements |-> <<>>]
               ELSE IF \A i \in 1..Len(items) : JsonIsScalar(Strip(items[i]))
               THEN [ok |-> TRUE, is_list |-> TRUE,
                     elements |-> [i \in 1..Len(items) |-> JsonScalar(Strip(items[i]))]]
               ELSE [ok |-> FALSE, is_list |-> FALSE, elements |-> <<>>]
       ELSE IF JsonIsScalar(t) THEN [ok |-> TRUE, is_list |-> FALSE, elements |-> <<>>]
       ELSE [ok |-> FALSE, is_list |-> FALSE, elements |-> <<>>]

KwFile == <<"$","$","f","i","l","e","(">>
KwDir == <<"$","$","d","i","r","(">>
KwList == <<"$","$","l","i","s","t","(">>
KwResults == <<"$","$","r","e","s","u","l","t","s","(">>
KwInitialPrompt == <<"$","$","i","n","i","t","i","a","l","_","p","r","o","m","p","t","(">>
RecursiveTrue == <<"r","e","c","u","r","s","i","v","e","=","T","r","u","e">>

\* the payload var_value[len(kw):-1].strip()
Payload(var_value, kw) == Strip(SubSeq(var_value, Len(kw) + 1, Len(var_value) - 1))

IsForm(var_value, kw) == StartsWith(var_value, kw) /\ EndsWith(var_value, <<")">>)

ParseDir(var_value) ==
    LET dir_content == Payload(var_value, KwDir)
        c == NextComma(dir_content, 1)
    IN IF c <= Len(dir_content)
       THEN [type |-> "dir", path |-> Strip(SubSeq(dir_content, 1, c - 1)),
             recursive |-> Contains(SubSeq(dir_content, c + 1, Len(dir_content)),
                                    RecursiveTrue)]
       ELSE [type |-> "dir", path |-> dir_content, recursive |-> FALSE]

ParseList(var_value) ==
    LET list_content == Payload(var_value, KwList)
        j == JsonLoads(list_content)
        parts == Split(list_content, ",")
    IN [type |-> "list",
        elements |-> IF j.ok
                     THEN (IF j.is_list THEN j.elements ELSE <<StrVal(list_content)>>)
                     ELSE [i \in 1..Len(parts) |-> StrVal(Strip(parts[i]))]]

\* the quotes of a regular value are stripped once
Unquote(var_value) ==
    IF \/ StartsWith(var_value, <<"\"">>) /\ EndsWith(var_value, <<"\"">>)
       \/ StartsWith(var_value, <<"'">>) /\ EndsWith(var_value, <<"'">>)
    THEN SubSeq(var_value, 2, Len(var_value) - 1)
    ELSE var_value

\* the value bound for one match: [bind, v]; bind is FALSE where the if/elif chain
\* of the $$ branch assigns nothing
ParseValue(a, var_value) ==
    IF StartsWith(var_value, <<"$","$">>)
    THEN IF IsForm(var_value, KwFile)
         THEN [bind |-> TRUE, v |-> [type |-> "file", path |-> Payload(var_value, KwFile)]]
         ELSE IF IsForm(var_value, KwDir)
         THEN [bind |-> TRUE, v |-> ParseDir(var_value)]
         ELSE IF IsForm(var_value, KwList)
         THEN [bind |-> TRUE, v |-> ParseList(var_value)]
         ELSE IF a = "best_of_n" /\ IsForm(var_value, KwResults)
         THEN [bind |-> TRUE,
               v |-> [type |-> "results", var_name |-> Payload(var_value, KwResults)]]
         ELSE IF a = "best_of_n" /\ IsForm(var_value, KwInitialPrompt)
         THEN [bind |-> TRUE, v |-> [type |-> "initial_prompt"]]
         ELSE [bind |-> FALSE, v |-> StrVal(var_value)]
    ELSE [bind |-> TRUE, v |-> StrVal(Unquote(var_value))]

RECURSIVE ParseMatches(_, _, _)
ParseMatches(a, matches, acc) ==
    IF matches = <<>> THEN acc
    ELSE LET m == Head(matches)
             r == ParseValue(a, Strip(m.value))
         IN ParseMatches(a, Tail(matches),
                         IF r.bind THEN DictSet(acc, Strip(m.name), r.v) ELSE acc)

parse_variable_definitions(a, defs) == ParseMatches(a, FindIter(defs, 1), <<>>)

---------------------------------------------------------------------------
(* The host filesystem: a sequence of nodes [path, kind, ok, content, entries].  *)
(* kind is "file" or "dir"; ok says that open(path).read() succeeds (a file) or  *)
(* that the directory can be listed (a dir); entries are a directory's entry     *)
(* names in the order the operating system enumerates them.                      *)

FsHas(f, path) == \E i \in 1..Len(f) : f[i].path = path

FsNode(f, path) == f[CHOOSE i \in 1..Len(f) : f[i].path = path]

\* os.path.isdir(path), os.path.isfile(path)
IsDir(f, path) == FsHas(f, path) /\ FsNode(f, path).kind = "dir"

IsFile(f, path) == FsHas(f, path) /\ FsNode(f, path).kind = "file"

\* open(path, 'r') and file.read(): [ok, content]; ok is FALSE where it raises
ReadFile(f, path) ==
    IF IsFile(f, path) /\ FsNode(f, path).ok
    THEN [ok |-> TRUE, content |-> FsNode(f, path).content]
    ELSE [ok |-> FALSE, content |-> <<>>]

\* os.path.join(a, b) for a relative b
PathJoin(a, b) == IF a = <<>> \/ a[Len(a)] = "/" THEN a \o b ELSE a \o <<"/">> \o b

\* the paths os.path.join(root, name) of the entries of root that are
\* directories (wantDir) or that are not
RECURSIVE JoinEntries(_, _, _, _)
JoinEntries(f, root, names, wantDir) ==
    IF names = <<>> THEN <<>>
    ELSE LET path == PathJoin(root, Head(names))
             rest == JoinEntries(f, root, Tail(names), wantDir)
         IN IF IsDir(f, path) = wantDir THEN <<path>> \o rest ELSE rest

\* os.walk(top), top-down, flattened to os.path.join(root, file) for every file:
\* a top that cannot be scanned yields nothing (onerror is None)
RECURSIVE Walk(_, _)
RECURSIVE WalkEach(_, _)
Walk(f, top) ==
    IF ~(IsDir(f, top) /\ FsNode(f, top).ok) THEN <<>>
    ELSE JoinEntries(f, top, FsNode(f, top).entries, FALSE)
         \o WalkEach(f, JoinEntries(f, top, FsNode(f, top).entries, TRUE))

WalkEach(f, dirs) == IF dirs = <<>> THEN <<>> ELSE Walk(f, Head(dirs)) \o WalkEach(f, Tail(dirs))

\* the non-recursive listing: [raised, paths]; os.listdir raises on a directory
\* that cannot be listed, and nothing around it catches that
ListTop(f, base_path) ==
    IF ~IsDir(f, base_path) THEN [raised |-> FALSE, paths |-> <<>>]
    ELSE IF ~FsNode(f, base_path).ok THEN [raised |-> TRUE, paths |-> <<>>]
    ELSE [raised |-> FALSE,
          paths |-> LET all == [i \in 1..Len(FsNode(f, base_path).entries) |->
                                    PathJoin(base_path, FsNode(f, base_path).entries[i])]
                    IN SelectSeq(all, LAMBDA q : IsFile(f, q))]

---------------------------------------------------------------------------
(* expand_variables *)

ErrorCouldNotRead ==
    <<"E","R","R","O","R",":"," ","C","o","u","l","d"," ","n","o","t"," ","r","e","a","d",
      " ","f","i","l","e"," ">>

NoFilesFoundIn == <<"N","o"," ","f","i","l","e","s"," ","f","o","u","n","d"," ","i","n"," ">>

PathSuffix == <<"_","p","a","t","h">>

\* the files of file_paths that can be read, in order: [values, paths]
RECURSIVE ReadAll(_, _)
ReadAll(f, file_paths) ==
    IF file_paths = <<>> THEN [values |-> <<>>, paths |-> <<>>]
    ELSE LET r == ReadFile(f, Head(file_paths))
             rest == ReadAll(f, Tail(file_paths))
         IN IF r.ok
            THEN [values |-> <<StrVal(r.content)>> \o rest.values,
                  paths |-> <<StrVal(Head(file_paths))>> \o rest.paths]
            ELSE rest

DirIsIterativeAlways(read) == TRUE

\* if file_contents: a directory with no readable file is not iterated over
DirIsIterative(read) == read.values # <<>>

\* the first loop over variables.items(): [raised, iterative_vars, fixed_vars]
RECURSIVE Classify(_, _, _, _)
Classify(a, f, vs, acc) ==
    IF vs = <<>> \/ acc.raised THEN acc
    ELSE LET var_name == Head(vs).k
             var_value == Head(vs).v
             rest == Tail(vs)
         IN IF ~IsDict(var_value)
            THEN Classify(a, f, rest,
                     [acc EXCEPT !.fixed_vars = DictSet(@, var_name, var_value)])
            ELSE IF var_value.type = "file"
            THEN LET r == ReadFile(f, var_value.path)
                 IN Classify(a, f, rest,
                        [acc EXCEPT !.fixed_vars = DictSet(@, var_name,
                            IF r.ok THEN StrVal(r.content)
                            ELSE StrVal(ErrorCouldNotRead \o var_value.path))])
            ELSE IF var_value.type = "dir"
            THEN LET top == ListTop(f, var_value.path)
                     file_paths == IF var_value.recursive THEN Walk(f, var_value.path)
                                   ELSE top.paths
                     read == ReadAll(f, file_paths)
                 IN IF ~var_value.recursive /\ top.raised
                    THEN [acc EXCEPT !.raised = TRUE]
                    ELSE IF DirIsIterative(read)
                    THEN Classify(a, f, rest,
                             [acc EXCEPT !.iterative_vars = DictSet(@, var_name, read)])
                    ELSE Classify(a, f, rest,
                             [acc EXCEPT !.fixed_vars = DictSet(@, var_name,
                                 StrVal(NoFilesFoundIn \o var_value.path))])
            ELSE IF var_value.type = "list"
            THEN Classify(a, f, rest,
                     [acc EXCEPT !.iterative_vars = DictSet(@, var_name,
                         [values |-> var_value.elements, paths |-> var_value.elements])])
            ELSE IF a = "best_of_n" /\ var_value.type = "results"
            THEN Classify(a, f, rest,
                     [acc EXCEPT !.fixed_vars = DictSet(@, var_name,
                         [type |-> "results", var_name |-> var_value.var_name])])
            ELSE Classify(a, f, rest, acc)

CrossOneSkipLast(combo, var_name, var_data) ==
    [i \in 1..(Len(var_data.values) - 1) |->
        DictSet(DictSet(combo, var_name, var_data.values[i]),
                var_name \o PathSuffix, var_data.paths[i])]

\* one combination crossed with every value of one iterative variable
CrossOne(combo, var_name, var_data) ==
    [i \in 1..Len(var_data.values) |->
        DictSet(DictSet(combo, var_name, var_data.values[i]),
                var_name \o PathSuffix, var_data.paths[i])]

CrossAllValuesOuter(combos, var_name, var_data) ==
    Concat([i \in 1..Len(var_data.values) |->
               [c \in 1..Len(combos) |->
                   DictSet(DictSet(combos[c], var_name, var_data.values[i]),
                           var_name \o PathSuffix, var_data.paths[i])]])

\* for combo in combinations: for i, value in enumerate(var_data["values"])
RECURSIVE CrossAll(_, _, _)
CrossAll(combos, var_name, var_data) ==
    IF combos = <<>> THEN <<>>
    ELSE CrossOne(Head(combos), var_name, var_data)
         \o CrossAll(Tail(combos), var_name, var_data)

\* the loop over iterative_vars.items()
RECURSIVE Product(_, _)
Product(iterative_vars, combos) ==
    IF iterative_vars = <<>> THEN combos
    ELSE Product(Tail(iterative_vars),
                 CrossAll(combos, Head(iterative_vars).k, Head(iterative_vars).v))

\* combo[var_name] = value for every fixed variable
RECURSIVE AddFixed(_, _)
AddFixed(combo, fixed_vars) ==
    IF fixed_vars = <<>> THEN combo
    ELSE AddFixed(DictSet(combo, Head(fixed_vars).k, Head(fixed_vars).v), Tail(fixed_vars))

\* [raised, combos]: raised is TRUE where an exception leaves the function
expand_variables(a, f, vs) ==
    LET c == Classify(a, f, vs, [raised |-> FALSE, iterative_vars |-> <<>>, fixed_vars |-> <<>>])
        product == Product(c.iterative_vars, <<<<>>>>)
    IN IF c.raised THEN [raised |-> TRUE, combos |-> <<>>]
       ELSE [raised |-> FALSE,
             combos |-> [i \in 1..Len(product) |-> AddFixed(product[i], c.fixed_vars)]]

---------------------------------------------------------------------------
(* render_template *)

Open2 == <<"{", "{">>

Close2 == <<"}", "}">>

Placeholder(var_name) == Open2 \o var_name \o Close2

UndefinedVariable ==
    <<"U","N","D","E","F","I","N","E","D","_","V","A","R","I","A","B","L","E","_">>

\* first index >= i that holds "}", Len(s) + 1 when there is none
RECURSIVE NextClose(_, _)
NextClose(s, i) == IF i <= Len(s) /\ s[i] # "}" THEN NextClose(s, i + 1) ELSE i

\* re.findall(r'{{([^}]+)}}', s) from index i on: the names, left to right
RECURSIVE FindAllFrom(_, _)
FindAllFrom(s, i) ==
    IF i > Len(s) THEN <<>>
    ELSE IF MatchesAt(s, Open2, i)
    THEN LET j == NextClose(s, i + 2)
         IN IF j > i + 2 /\ MatchesAt(s, Close2, j)
            THEN <<SubSeq(s, i + 2, j - 1)>> \o FindAllFrom(s, j + 2)
            ELSE FindAllFrom(s, i + 1)
    ELSE FindAllFrom(s, i + 1)

SubstitutedWithPaths(a, var_name, value) == a = "best_of_n" => ~IsDict(value)

\* whether the loop substitutes this entry: app3 has no check for dict values
Substituted(a, var_name, value) ==
    /\ ~EndsWith(var_name, PathSuffix)
    /\ (a = "best_of_n" => ~IsDict(value))

\* the loop over variables.items()
RECURSIVE SubstituteAll(_, _, _)
SubstituteAll(a, result, items) ==
    IF items = <<>> THEN result
    ELSE SubstituteAll(a,
             IF Substituted(a, Head(items).k, Head(items).v)
             THEN Replace(result, Placeholder(Head(items).k), PyStr(Head(items).v))
             ELSE result,
             Tail(items))

\* the loop over remaining_vars
RECURSIVE MarkUndefined(_, _)
MarkUndefined(result, remaining_vars) ==
    IF remaining_vars = <<>> THEN result
    ELSE MarkUndefined(
             Replace(result, Placeholder(Head(remaining_vars)),
                     UndefinedVariable \o Head(remaining_vars)),
             Tail(remaining_vars))

render_template(a, tpl, combo) ==
    LET result == SubstituteAll(a, tpl, combo)
    IN MarkUndefined(result, FindAllFrom(result, 1))

---------------------------------------------------------------------------
(* process_special_variables *)

XmlBlockFromZero(xml_var_name, i, output) ==
    <<"<">> \o xml_var_name \o IntToStr(i - 1) \o <<">", "\n">> \o output
    \o <<"\n", "<", "/">> \o xml_var_name \o IntToStr(i - 1) \o <<">", "\n">>

\* f"<{xml_var_name}{i}>\n{output}\n</{xml_var_name}{i}>\n"
XmlBlock(xml_var_name, i, output) ==
    <<"<">> \o xml_var_name \o IntToStr(i) \o <<">", "\n">> \o output
    \o <<"\n", "<", "/">> \o xml_var_name \o IntToStr(i) \o <<">", "\n">>

\* the loop for i, output in enumerate(outputs, 1), from index i on
RECURSIVE XmlOutputs(_, _, _)
XmlOutputs(xml_var_name, outs, i) ==
    IF i > Len(outs) THEN <<>>
    ELSE XmlBlock(xml_var_name, i, outs[i]) \o XmlOutputs(xml_var_name, outs, i + 1)

\* the loop over variables.items()
RECURSIVE ProcessSpecial(_, _, _, _)
ProcessSpecial(result, items, initial, outs) ==
    IF items = <<>> THEN result
    ELSE LET var_name == Head(items).k
             var_value == Head(items).v
         IN ProcessSpecial(
                IF var_value.type = "results"
                THEN Replace(result, Placeholder(var_name),
                             XmlOutputs(var_value.var_name, outs, 1))
                ELSE IF var_value.type = "initial_prompt"
                THEN Replace(result, Placeholder(var_name), initial)
                ELSE result,
                Tail(items), initial, outs)

process_special_variables(tpl, vs, initial, outs) == ProcessSpecial(tpl, vs, initial, outs)

---------------------------------------------------------------------------
(* batch_call_llm *)

ErrorCallingLLM ==
    <<"E","r","r","o","r"," ","c","a","l","l","i","n","g"," ","L","L","M",":"," ">>

\* [f"Error calling LLM: {str(e)}"] * num_runs
ErrorListOfOne(e, n) == <<ErrorCallingLLM \o e>>

ErrorList(e, n) == [i \in 1..n |-> ErrorCallingLLM \o e]

---------------------------------------------------------------------------
(* Bounds and input sets *)

\* declarations in one definitions string
MaxDecls == 2

\* variables in one mapping given to expand_variables
MaxVars == 2

\* elements in one list variable
MaxList == 2

\* fragments in one template given to render_template
MaxParts == 2

Apps == {"best_of_n", "app3"}

NameA == <<"a">>
NameB == <<"b">>
NameC == <<"c">>
NameAPath == NameA \o PathSuffix
NameTopic == <<"t","o","p","i","c">>
NameN == <<"n">>
PathP == <<"p">>
PathD == <<"d">>
TagOut == <<"O","u","t">>

File(path, ok, content) ==
    [path |-> path, kind |-> "file", ok |-> ok, content |-> content, entries |-> <<>>]

Dir(path, ok, entries) ==
    [path |-> path, kind |-> "dir", ok |-> ok, content |-> <<>>, entries |-> entries]

F1 == <<"f","1">>
F2 == <<"f","2">>
Sub == <<"s">>

\* p readable, d missing
FsNoDir == <<File(PathP, TRUE, <<"P">>)>>
\* p unreadable, d empty
FsEmptyDir == <<File(PathP, FALSE, <<>>), Dir(PathD, TRUE, <<>>)>>
\* p missing, d holds a readable and an unreadable file
FsMixedDir ==
    <<Dir(PathD, TRUE, <<F1, F2>>), File(PathJoin(PathD, F1), TRUE, <<"F">>),
      File(PathJoin(PathD, F2), FALSE, <<>>)>>
\* d holds two readable files
FsTwoFiles ==
    <<File(PathP, TRUE, <<"P">>), Dir(PathD, TRUE, <<F1, F2>>),
      File(PathJoin(PathD, F1), TRUE, <<"F">>), File(PathJoin(PathD, F2), TRUE, <<"G">>)>>
\* every file of d is unreadable
FsUnreadableDir ==
    <<File(PathP, TRUE, <<"P">>), Dir(PathD, TRUE, <<F1>>),
      File(PathJoin(PathD, F1), FALSE, <<>>)>>
\* d holds a subdirectory with a file, and a file
FsSubDir ==
    <<File(PathP, TRUE, <<"P">>), Dir(PathD, TRUE, <<Sub, F1>>),
      Dir(PathJoin(PathD, Sub), TRUE, <<F2>>),
      File(PathJoin(PathJoin(PathD, Sub), F2), TRUE, <<"G">>),
      File(PathJoin(PathD, F1), TRUE, <<"F">>)>>
\* d exists and cannot be listed
FsUnlistableDir == <<File(PathP, TRUE, <<"P">>), Dir(PathD, FALSE, <<>>)>>

FileSystems ==
    {FsNoDir, FsEmptyDir, FsMixedDir, FsTwoFiles, FsUnreadableDir, FsSubDir, FsUnlistableDir}

ListElements == <<StrVal(<<"x">>), StrVal(<<"y">>), StrVal(<<"z">>), StrVal(<<"u">>)>>

\* the values a parsed mapping can hold
ExpandValues ==
    {StrVal(<<"v">>),
     [type |-> "file", path |-> PathP],
     [type |-> "dir", path |-> PathD, recursive |-> FALSE],
     [type |-> "dir", path |-> PathD, recursive |-> TRUE],
     [type |-> "results", var_name |-> TagOut],
     [type |-> "initial_prompt"]}
    \cup {[type |-> "list", elements |-> SubSeq(ListElements, 1, n)] : n \in 0..MaxList}

ExpandNames == {NameA, NameB, NameAPath}

\* the dicts of at most n entries with keys in names and values in values
RECURSIVE Mappings(_, _, _)
Mappings(names, values, n) ==
    IF n = 0 THEN {<<>>}
    ELSE LET prev == Mappings(names, values, n - 1)
         IN prev \cup UNION {
                {Append(m, [k |-> k, v |-> v]) : k \in names \ DictKeys(m), v \in values}
                : m \in {x \in prev : Len(x) = n - 1}}

\* the mappings of the parser of application a: app3 has no results and no
\* initial_prompt form
VarMappings(a) ==
    Mappings(ExpandNames,
             IF a = "app3"
             THEN {v \in ExpandValues : v.type \notin {"results", "initial_prompt"}}
             ELSE ExpandValues,
             MaxVars)

---------------------------------------------------------------------------
(* Definitions strings: declarations name=value joined by one separator *)

QuotedWater == <<"\"","w","a","t","e","r","\"">>
ListAB == <<"$","$","l","i","s","t","(","[","\"","a","\"",",","\"","b","\"","]",")">>
ListA == <<"$","$","l","i","s","t","(","[","\"","a","\"","]",")">>
DirD == <<"$","$","d","i","r","(","d",")">>
DirDRecursive ==
    <<"$","$","d","i","r","(","d",","," ","r","e","c","u","r","s","i","v","e","=","T","r","u","e",")">>
FileP == <<"$","$","f","i","l","e","(","p",")">>
UnknownForm == <<"$","$","f","o","o","(","p",")">>
UnclosedForm == <<"$","$","f","i","l","e","(","p">>
ResultsOut == <<"$","$","r","e","s","u","l","t","s","(","O","u","t",")">>
InitialPromptForm ==
    <<"$","$","i","n","i","t","i","a","l","_","p","r","o","m","p","t","(",")">>

\* values that begin with $$ and are no well-formed special form
MalformedForms == {UnknownForm, UnclosedForm}

ParseValues ==
    {QuotedWater, ListAB, ListA, DirD, DirDRecursive, FileP, ResultsOut, InitialPromptForm}
    \cup MalformedForms

ParseNames == {NameTopic, NameN}

Decl(name, value) == name \o <<"=">> \o value

Separators == {<<",">>, <<",", " ">>}

RECURSIVE DefStringsOf(_, _)
DefStringsOf(sep, n) ==
    IF n = 1 THEN {Decl(x, v) : x \in ParseNames, v \in ParseValues}
    ELSE LET prev == DefStringsOf(sep, n - 1)
         IN prev \cup {d \o sep \o Decl(x, v) :
                          d \in prev, x \in ParseNames, v \in ParseValues}

DefStrings == UNION {DefStringsOf(sep, MaxDecls) : sep \in Separators}

\* {{topic}}-{{n}}
TopicDashN == Placeholder(NameTopic) \o <<"-">> \o Placeholder(NameN)

---------------------------------------------------------------------------
(* Templates and combinations given to render_template *)

TemplateParts ==
    {Placeholder(NameA), Placeholder(NameB), Placeholder(NameAPath), Placeholder(NameC),
     Open2, Close2, <<"x">>, <<"{">>}

RECURSIVE Templates(_)
Templates(n) ==
    IF n = 0 THEN {<<>>}
    ELSE LET prev == Templates(n - 1)
         IN prev \cup {t \o part : t \in prev, part \in TemplateParts}

RenderValues(a) ==
    {StrVal(<<"v">>), StrVal(Placeholder(NameB)), StrVal(<<"{">>), IntVal(7)}
    \cup (IF a = "best_of_n" THEN {[type |-> "results", var_name |-> TagOut]} ELSE {})

RenderCombos(a) ==
    {c \in Mappings(ExpandNames, RenderValues(a), 2) :
        Len(c) = 2 => c[1].k = NameA \/ c[2].k = NameA}

---------------------------------------------------------------------------
(* The run: parse, expand, render *)

Parse ==
    /\ pc = "start"
    /\ variables' = parse_variable_definitions(app, var_definitions)
    /\ pc' = "parsed"
    /\ UNCHANGED <<app, var_definitions, fs, combinations, template, rendered>>
    /\ UNCHANGED <<evalVars, batchVars>>
    /\ UNCHANGED logVars
    /\ UNCHANGED mainVars

Expand ==
    /\ pc = "parsed"
    /\ combinations' = expand_variables(app, fs, variables)
    /\ pc' = "expanded"
    /\ UNCHANGED <<app, var_definitions, variables, fs, template, rendered>>
    /\ UNCHANGED <<evalVars, batchVars>>
    /\ UNCHANGED logVars
    /\ UNCHANGED mainVars

Render ==
    /\ pc = "expanded"
    /\ ~combinations.raised
    /\ rendered' = [i \in 1..Len(combinations.combos) |->
                       render_template(app, template, combinations.combos[i])]
    /\ pc' = "rendered"
    /\ UNCHANGED <<app, var_definitions, variables, fs, combinations, template>>
    /\ UNCHANGED <<evalVars, batchVars>>
    /\ UNCHANGED logVars
    /\ UNCHANGED mainVars

NoCombinations == [raised |-> FALSE, combos |-> <<>>]

\* the parts of the state a specification does not use
RunIdle ==
    /\ var_definitions = <<>>
    /\ variables = <<>>
    /\ fs = <<>>
    /\ combinations = NoCombinations
    /\ template = <<>>
    /\ rendered = <<>>

EvalIdle ==
    /\ eval_prompt_template = <<>>
    /\ eval_variables = <<>>
    /\ rendered_prompt = <<>>
    /\ outputs = <<>>
    /\ eval_rendered_prompt = <<>>

BatchIdle ==
    /\ prompt = <<>>
    /\ num_runs = 0
    /\ batch_results = <<>>
    /\ requests = <<>>
    /\ returned = <<>>

MainIdle ==
    /\ api_key = <<>>
    /\ max_iterations = 0
    /\ append_datetime = FALSE
    /\ eval_var_definitions = <<>>
    /\ processed = <<>>
    /\ truncation_warned = FALSE
    /\ run_data = <<>>
    /\ eval_output = <<>>

LogIdle ==
    /\ log_file = <<>>
    /\ log_store = [kind |-> "missing"]
    /\ session_data = [llm_params |-> <<>>]
    /\ timestamp = <<>>
    /\ log_writes = 0
    /\ log_warned = FALSE
    /\ log_raised = FALSE

\* a run from a definitions string
InitParse ==
    /\ pc = "start"
    /\ app \in Apps
    /\ var_definitions \in DefStrings
    /\ variables = <<>>
    /\ fs \in {FsTwoFiles, FsEmptyDir}
    /\ combinations = NoCombinations
    /\ template = TopicDashN
    /\ rendered = <<>>
    /\ EvalIdle
    /\ BatchIdle
    /\ LogIdle
    /\ MainIdle

NextParse == Parse \/ Expand \/ Render

SpecParse == InitParse /\ [][NextParse]_vars

\* expand_variables on a parsed mapping
InitExpand ==
    /\ pc = "parsed"
    /\ app \in Apps
    /\ var_definitions = <<>>
    /\ variables \in VarMappings(app)
    /\ fs \in FileSystems
    /\ combinations = NoCombinations
    /\ template = <<>>
    /\ rendered = <<>>
    /\ EvalIdle
    /\ BatchIdle
    /\ LogIdle
    /\ MainIdle

NextExpand == Expand

SpecExpand == InitExpand /\ [][NextExpand]_vars

\* render_template on a template and one combination
InitRender ==
    /\ pc = "expanded"
    /\ app \in Apps
    /\ var_definitions = <<>>
    /\ variables = <<>>
    /\ fs = <<>>
    /\ \E c \in RenderCombos(app) : combinations = [raised |-> FALSE, combos |-> <<c>>]
    /\ template \in Templates(MaxParts)
    /\ rendered = <<>>
    /\ EvalIdle
    /\ BatchIdle
    /\ LogIdle
    /\ MainIdle

NextRender == Render

SpecRender == InitRender /\ [][NextRender]_vars

---------------------------------------------------------------------------
(* Properties of expand_variables *)

Expanded == pc = "expanded" /\ ~combinations.raised

\* the number of readable files a directory variable ranges over, counted on the
\* filesystem: the files directly inside the directory, or anywhere below it
DirSize(f, d) ==
    IF ~(IsDir(f, d.path) /\ FsNode(f, d.path).ok) THEN 0
    ELSE LET prefix == d.path \o <<"/">>
         IN Cardinality({i \in 1..Len(f) :
                /\ f[i].kind = "file" /\ f[i].ok
                /\ StartsWith(f[i].path, prefix)
                /\ (d.recursive \/
                    ~Contains(SubSeq(f[i].path, Len(prefix) + 1, Len(f[i].path)), <<"/">>))})

\* an iterating variable: a list, or a directory with at least one readable file
IsIterating(f, v) == v.type = "list" \/ (v.type = "dir" /\ DirSize(f, v) > 0)

SizeOf(f, v) == IF v.type = "list" THEN Len(v.elements) ELSE DirSize(f, v)

RECURSIVE ProductOfSizes(_, _)
ProductOfSizes(f, vs) ==
    IF vs = <<>> THEN 1
    ELSE (IF IsIterating(f, Head(vs).v) THEN SizeOf(f, Head(vs).v) ELSE 1)
         * ProductOfSizes(f, Tail(vs))

Entries(d) == {d[i] : i \in 1..Len(d)}

Combos == {combinations.combos[i] : i \in 1..Len(combinations.combos)}

\* C1: expand_variables returns exactly s1*...*sm combinations for the m iterating
\* variables of sizes s1..sm (one when m = 0, none when some si = 0), and every
\* combination holds every literal variable with its value unchanged.
C1_ProductAndFixed ==
    Expanded =>
        /\ Len(combinations.combos) = ProductOfSizes(fs, variables)
        /\ (\A e \in Entries(variables) : ~IsIterating(fs, e.v))
               => Len(combinations.combos) = 1
        /\ (\E e \in Entries(variables) : IsIterating(fs, e.v) /\ SizeOf(fs, e.v) = 0)
               => Len(combinations.combos) = 0
        /\ \A e \in Entries(variables) : e.v.type = "str" =>
               \A c \in Combos : DictHas(c, e.k) /\ DictGet(c, e.k) = e.v

\* a literal and an iterating variable of two values gave two combinations
C1_Witness ==
    /\ Expanded
    /\ \E e \in Entries(variables) : e.v.type = "str"
    /\ \E e \in Entries(variables) : IsIterating(fs, e.v) /\ SizeOf(fs, e.v) = 2
    /\ Len(combinations.combos) = 2

Without(d, k) == SelectSeq(d, LAMBDA e : e.k # k)

\* C10: a directory variable with no readable file (empty, missing, or every file
\* unreadable) is a fixed variable bound to "No files found in <path>": it leaves
\* the number of combinations what the other variables make it, and alone it
\* yields exactly one combination.
C10_EmptyDirIsFixed ==
    Expanded =>
        \A e \in Entries(variables) :
            (e.v.type = "dir" /\ DirSize(fs, e.v) = 0) =>
                /\ \A c \in Combos :
                       /\ DictHas(c, e.k)
                       /\ DictGet(c, e.k) = StrVal(NoFilesFoundIn \o e.v.path)
                /\ Len(combinations.combos) = ProductOfSizes(fs, Without(variables, e.k))
                /\ (Len(variables) = 1 => Len(combinations.combos) = 1)

\* a directory without readable files next to a list of two elements: two combinations
C10_Witness ==
    /\ Expanded
    /\ \E e \in Entries(variables) : e.v.type = "dir" /\ DirSize(fs, e.v) = 0
    /\ \E e \in Entries(variables) : e.v.type = "list" /\ Len(e.v.elements) = 2
    /\ Len(combinations.combos) = 2
    /\ \A c \in Combos : \E e \in Entries(c) : e.v = StrVal(NoFilesFoundIn \o PathD)

\* C11: expand_variables returns normally whatever the filesystem holds: a file
\* variable whose file cannot be read is bound to "ERROR: Could not read file
\* <path>" in every combination, and a directory variable whose directory is
\* missing or cannot be listed is bound to the placeholder "No files found in
\* <path>"; nothing raised leaves the function.
C11_ExpandReturnsNormally ==
    pc = "expanded" =>
        /\ ~combinations.raised
        /\ \A e \in Entries(variables) :
               /\ (e.v.type = "file" /\ ~ReadFile(fs, e.v.path).ok) =>
                      \A c \in Combos :
                          /\ DictHas(c, e.k)
                          /\ DictGet(c, e.k) = StrVal(ErrorCouldNotRead \o e.v.path)
               /\ (e.v.type = "dir" /\ ~(IsDir(fs, e.v.path) /\ FsNode(fs, e.v.path).ok)) =>
                      \A c \in Combos :
                          /\ DictHas(c, e.k)
                          /\ DictGet(c, e.k) = StrVal(NoFilesFoundIn \o e.v.path)

\* C15: every results and every initial_prompt variable is in every returned
\* combination, under its name and as the structured value it was declared as,
\* and the number of combinations is what the other variables make it.
C15_SpecialCarriedThrough ==
    Expanded =>
        \A e \in Entries(variables) :
            e.v.type \in {"results", "initial_prompt"} =>
                /\ \A c \in Combos : DictHas(c, e.k) /\ DictGet(c, e.k) = e.v
                /\ Len(combinations.combos) = ProductOfSizes(fs, Without(variables, e.k))

---------------------------------------------------------------------------
(* Properties of render_template *)

Rendered == pc = "rendered"

\* the entry of the combination that a placeholder name stands for, if any
Eligible(combo, name) ==
    /\ DictHas(combo, name)
    /\ ~EndsWith(name, PathSuffix)
    /\ ~IsDict(DictGet(combo, name))

\* a placeholder {{name}} starts at index i of t
PlaceholderAt(t, i) ==
    /\ MatchesAt(t, Open2, i)
    /\ NextClose(t, i + 2) > i + 2
    /\ MatchesAt(t, Close2, NextClose(t, i + 2))

\* the template read once from left to right, each placeholder replaced in place
RECURSIVE ReplacedInPlace(_, _, _)
ReplacedInPlace(t, combo, i) ==
    IF i > Len(t) THEN <<>>
    ELSE IF PlaceholderAt(t, i)
    THEN LET j == NextClose(t, i + 2)
             name == SubSeq(t, i + 2, j - 1)
         IN (IF Eligible(combo, name) THEN PyStr(DictGet(combo, name))
             ELSE UndefinedVariable \o name)
            \o ReplacedInPlace(t, combo, j + 2)
    ELSE <<t[i]>> \o ReplacedInPlace(t, combo, i + 1)

IsBrace(c) == c \in {"{", "}"}

\* braces occur in t only as the delimiters of {{identifier}} placeholders
RECURSIVE WellFormedFrom(_, _)
WellFormedFrom(t, i) ==
    IF i > Len(t) THEN TRUE
    ELSE IF ~IsBrace(t[i]) THEN WellFormedFrom(t, i + 1)
    ELSE /\ MatchesAt(t, Open2, i)
         /\ i + 2 <= Len(t)
         /\ IsNameStart(t[i + 2])
         /\ MatchesAt(t, Close2, NameEnd(t, i + 2))
         /\ WellFormedFrom(t, NameEnd(t, i + 2) + 2)

WellFormed(t) == WellFormedFrom(t, 1)

\* no value that is substituted holds a brace
BraceFreeValues(combo) ==
    \A e \in Entries(combo) :
        Eligible(combo, e.k) => \A i \in 1..Len(PyStr(e.v)) : ~IsBrace(PyStr(e.v)[i])

\* C3 as stated: for every template and combination, the result is the template
\* with every {{name}} replaced in place, by the value of an eligible key and by
\* UNDEFINED_VARIABLE_<name> otherwise, and it holds no {{.
C3_Original ==
    Rendered =>
        /\ rendered[1] = ReplacedInPlace(template, combinations.combos[1], 1)
        /\ ~Contains(rendered[1], Open2)

\* C3 amended: the same, for templates whose braces are all delimiters of
\* {{identifier}} placeholders and combinations whose substituted values hold no brace.
C3_RenderWellFormed ==
    (Rendered /\ WellFormed(template) /\ BraceFreeValues(combinations.combos[1])) =>
        /\ rendered[1] = ReplacedInPlace(template, combinations.combos[1], 1)
        /\ ~Contains(rendered[1], Open2)

\* {{a}}{{c}} rendered with a bound and c unbound
C3_Witness ==
    /\ Rendered
    /\ template = Placeholder(NameA) \o Placeholder(NameC)
    /\ BraceFreeValues(combinations.combos[1])
    /\ Eligible(combinations.combos[1], NameA)
    /\ rendered[1] = PyStr(DictGet(combinations.combos[1], NameA)) \o UndefinedVariable \o NameC

\* the orderings of the entries of a dict
Orderings(d) ==
    {[i \in 1..Len(d) |-> d[perm[i]]] :
        perm \in {q \in [1..Len(d) -> 1..Len(d)] :
                     \A i, j \in 1..Len(d) : q[i] = q[j] => i = j}}

\* C12: the rendered text is the same for every ordering of the entries of the
\* combination, also where a value holds the placeholder of another key.
C12_OrderIndependent ==
    Rendered =>
        \A other \in Orderings(combinations.combos[1]) :
            render_template(app, template, other) = rendered[1]

---------------------------------------------------------------------------
(* Properties of parse_variable_definitions and of the run from a definitions string *)

Parsed == pc # "start"

\* C8: a value that begins with $$ and is no well-formed special form is bound to
\* its name as a plain literal, the $$ kept; the declared name is not dropped.
C8_MalformedFormIsLiteral ==
    \A x \in ParseNames, v \in MalformedForms :
        (Parsed /\ var_definitions = Decl(x, v)) =>
            variables = <<[k |-> x, v |-> StrVal(v)]>>

\* C9: name=$$dir(d, recursive=True) declares exactly one variable, name, bound to
\* the directory d with the recursive flag set.
C9_CommaInsideForm ==
    \A x \in ParseNames :
        (Parsed /\ var_definitions = Decl(x, DirDRecursive)) =>
            variables = <<[k |-> x, v |-> [type |-> "dir", path |-> PathD, recursive |-> TRUE]]>>

WaterDash(e) == <<"w","a","t","e","r","-">> \o e

\* C2: topic="water", n=$$list(["a","b"]) with template {{topic}}-{{n}} gives two
\* combinations, rendered water-a then water-b.
C2_LiteralAndList ==
    \A sep \in Separators :
        var_definitions = Decl(NameTopic, QuotedWater) \o sep \o Decl(NameN, ListAB) =>
            /\ pc \in {"expanded", "rendered"} => Len(combinations.combos) = 2
            /\ pc = "rendered" => rendered = <<WaterDash(<<"a">>), WaterDash(<<"b">>)>>

---------------------------------------------------------------------------
(* The evaluation stage: process_special_variables on the outputs of the runs *)

\* outputs given to process_special_variables
MaxOutputs == 3

RECURSIVE SeqsUpTo(_, _)
SeqsUpTo(S, n) ==
    IF n = 0 THEN {<<>>}
    ELSE LET prev == SeqsUpTo(S, n - 1) IN prev \cup {Append(q, x) : q \in prev, x \in S}

\* an output of the model may hold placeholder-like text
OutputTexts == {<<"x">>, Placeholder(NameB)}

InitialPrompts == {<<"p">>, Placeholder(NameB)}

EvalValues == {[type |-> "results", var_name |-> TagOut], [type |-> "initial_prompt"],
               StrVal(<<"v">>)}

EvalNames == {NameA, NameB}

EvalTemplateParts == {Placeholder(NameA), Placeholder(NameB), <<"x">>}

RECURSIVE EvalTemplates(_)
EvalTemplates(n) ==
    IF n = 0 THEN {<<>>}
    ELSE LET prev == EvalTemplates(n - 1)
         IN prev \cup {t \o part : t \in prev, part \in EvalTemplateParts}

Resolve ==
    /\ pc = "eval"
    /\ eval_rendered_prompt' =
           process_special_variables(eval_prompt_template, eval_variables,
                                     rendered_prompt, outputs)
    /\ pc' = "resolved"
    /\ UNCHANGED <<app, runVars, batchVars>>
    /\ UNCHANGED <<eval_prompt_template, eval_variables, rendered_prompt, outputs>>
    /\ UNCHANGED logVars
    /\ UNCHANGED mainVars

InitResolve ==
    /\ pc = "eval"
    /\ app = "best_of_n"
    /\ RunIdle
    /\ BatchIdle
    /\ eval_prompt_template \in EvalTemplates(MaxParts)
    /\ eval_variables \in Mappings(EvalNames, EvalValues, MaxVars)
    /\ rendered_prompt \in InitialPrompts
    /\ outputs \in SeqsUpTo(OutputTexts, MaxOutputs)
    /\ eval_rendered_prompt = <<>>
    /\ LogIdle
    /\ MainIdle

NextResolve == Resolve

SpecResolve == InitResolve /\ [][NextResolve]_vars

Resolved == pc = "resolved"

IsSpecial(v) == v.type \in {"results", "initial_prompt"}

\* <tagName i>, newline, output i, newline, </tagName i>, newline for i = 1..n
ExpectedBlocks(tagName, outs) ==
    Concat([i \in 1..Len(outs) |->
        Concat(<< <<"<">>, tagName, IntToStr(i), <<">">>, <<"\n">>, outs[i], <<"\n">>,
                  <<"<", "/">>, tagName, IntToStr(i), <<">">>, <<"\n">> >>)])

\* t with every occurrence of the placeholder ph replaced by new, position by position
InPlace(t, ph, new) ==
    Concat([i \in 1..Len(t) |->
        IF MatchesAt(t, ph, i) THEN new
        ELSE IF \E j \in 1..(i - 1) : j > i - Len(ph) /\ MatchesAt(t, ph, j) THEN <<>>
        ELSE <<t[i]>>])

\* C7: where a ResultsRef(tagName) variable is the one special variable of the
\* evaluation mapping, the result is the template with the variable's placeholder
\* replaced by the numbered blocks of the outputs, 1-based and in output order
\* (by the empty string when there is no output).
C7_ResultsBlocks ==
    Resolved =>
        \A e \in Entries(eval_variables) :
            (e.v.type = "results"
             /\ \A o \in Entries(eval_variables) : IsSpecial(o.v) => o = e)
            => eval_rendered_prompt =
                   InPlace(eval_prompt_template, Placeholder(e.k),
                           ExpectedBlocks(e.v.var_name, outputs))

\* three outputs substituted for the placeholder of the one ResultsRef variable
C7_Witness ==
    /\ Resolved
    /\ Len(outputs) = 3
    /\ \E e \in Entries(eval_variables) :
           /\ e.v.type = "results"
           /\ \A o \in Entries(eval_variables) : IsSpecial(o.v) => o = e
           /\ Contains(eval_prompt_template, Placeholder(e.k))
           /\ Contains(eval_rendered_prompt,
                       <<"<">> \o e.v.var_name \o <<"3", ">", "\n">> \o outputs[3])

\* the text a special variable stands for
SpecialText(v, initial, outs) ==
    IF v.type = "results" THEN ExpectedBlocks(v.var_name, outs) ELSE initial

\* the special variable of vs whose placeholder starts at index i of t, if any
SpecialAt(t, vs, i) == {e \in Entries(vs) : IsSpecial(e.v) /\ MatchesAt(t, Placeholder(e.k), i)}

\* t read once: each placeholder of a special variable of vs replaced, in place,
\* by the text the variable stands for, and nothing else changed
ResolvedInPlace(t, vs, initial, outs) ==
    Concat([i \in 1..Len(t) |->
        IF SpecialAt(t, vs, i) # {}
        THEN SpecialText((CHOOSE e \in SpecialAt(t, vs, i) : TRUE).v, initial, outs)
        ELSE IF \E j \in 1..(i - 1) :
                    \E e \in SpecialAt(t, vs, j) : j + Len(Placeholder(e.k)) > i
        THEN <<>>
        ELSE <<t[i]>>])

\* C13: with an InitialPromptRef variable declared, the initial prompt stands
\* verbatim at each occurrence of its placeholder, whatever it holds and in
\* whatever order the evaluation variables are declared (the outputs here hold
\* no placeholder text, so only the inserted initial prompt can be rewritten).
C13_InitialPromptVerbatim ==
    (/\ Resolved
     /\ \E e \in Entries(eval_variables) : e.v.type = "initial_prompt"
     /\ \A i \in 1..Len(outputs) : ~Contains(outputs[i], Open2))
    => eval_rendered_prompt =
           ResolvedInPlace(eval_prompt_template, eval_variables, rendered_prompt, outputs)

\* the evaluation mapping with each special variable bound to the text it stands for
EvalBindings(vs, initial, outs) ==
    [i \in 1..Len(vs) |->
        [k |-> vs[i].k,
         v |-> IF IsSpecial(vs[i].v) THEN StrVal(SpecialText(vs[i].v, initial, outs))
               ELSE vs[i].v]]

\* C14: the evaluation prompt is the evaluation template with every placeholder
\* resolved: a special variable to its text, a literal variable to its value, an
\* undeclared name to UNDEFINED_VARIABLE_<name>; it holds no {{name}} placeholder
\* (the initial prompt and the outputs here hold no placeholder text themselves).
C14_EvalPromptResolved ==
    (/\ Resolved
     /\ ~Contains(rendered_prompt, Open2)
     /\ \A i \in 1..Len(outputs) : ~Contains(outputs[i], Open2))
    => /\ eval_rendered_prompt =
              ReplacedInPlace(eval_prompt_template,
                              EvalBindings(eval_variables, rendered_prompt, outputs), 1)
       /\ \A i \in 1..Len(eval_rendered_prompt) : ~PlaceholderAt(eval_rendered_prompt, i)

---------------------------------------------------------------------------
(* batch_call_llm, one request of the loop at a time *)

\* the least number of runs the operator can ask for
MinRuns == 2

\* the most runs asked for
MaxRuns == 3

Prompts == {<<"p">>, <<"q">>}

Responses == {<<"r">>, <<"s">>, Placeholder(NameB)}

ServiceErrors == {<<"E">>}

\* client.messages.create returns: the text is appended to batch_results
BatchCallOk ==
    /\ pc = "batch"
    /\ Len(batch_results) < num_runs
    /\ \E r \in Responses :
           /\ requests' = Append(requests, [prompt |-> prompt, ok |-> TRUE, text |-> r])
           /\ batch_results' = Append(batch_results, r)
    /\ UNCHANGED <<pc, app, runVars, evalVars, prompt, num_runs, returned>>
    /\ UNCHANGED logVars
    /\ UNCHANGED mainVars

\* client.messages.create raises: the except clause around the whole loop returns
BatchCallFail ==
    /\ pc = "batch"
    /\ Len(batch_results) < num_runs
    /\ \E e \in ServiceErrors :
           /\ requests' = Append(requests, [prompt |-> prompt, ok |-> FALSE, text |-> e])
           /\ returned' = ErrorList(e, num_runs)
    /\ pc' = "returned"
    /\ UNCHANGED <<app, runVars, evalVars, prompt, num_runs, batch_results>>
    /\ UNCHANGED logVars
    /\ UNCHANGED mainVars

\* the loop is over: return batch_results
BatchReturn ==
    /\ pc = "batch"
    /\ Len(batch_results) = num_runs
    /\ returned' = batch_results
    /\ pc' = "returned"
    /\ UNCHANGED <<app, runVars, evalVars, prompt, num_runs, batch_results, requests>>
    /\ UNCHANGED logVars
    /\ UNCHANGED mainVars

InitBatch ==
    /\ pc = "batch"
    /\ app = "best_of_n"
    /\ RunIdle
    /\ EvalIdle
    /\ prompt \in Prompts
    /\ num_runs \in MinRuns..MaxRuns
    /\ batch_results = <<>>
    /\ requests = <<>>
    /\ returned = <<>>
    /\ LogIdle
    /\ MainIdle

NextBatch == BatchCallOk \/ BatchCallFail \/ BatchReturn

SpecBatch == InitBatch /\ [][NextBatch]_vars

\* C6: a failing call for request i gives an error string as result i only: the
\* results of the requests before i are kept and the requests after i are issued.
C6_FailureIsLocal ==
    pc = "returned" =>
        /\ Len(requests) = num_runs
        /\ Len(returned) = num_runs
        /\ \A i \in 1..num_runs :
               returned[i] = IF requests[i].ok THEN requests[i].text
                             ELSE ErrorCallingLLM \o requests[i].text

\* C20: the requests are issued one at a time, each after the results of all
\* earlier ones are in batch_results; what is returned has exactly num_runs
\* results, and when no call failed the i-th result is the response to the i-th
\* request.
C20_SequentialAndComplete ==
    /\ pc = "batch" =>
           /\ Len(requests) = Len(batch_results)
           /\ Len(requests) <= num_runs
           /\ \A i \in 1..Len(requests) :
                  requests[i].ok /\ batch_results[i] = requests[i].text
    /\ pc = "returned" =>
           /\ Len(returned) = num_runs
           /\ Len(requests) <= num_runs
           /\ \A i \in 1..Len(requests) : requests[i].prompt = prompt
           /\ (\A i \in 1..Len(requests) : requests[i].ok) =>
                  /\ Len(requests) = num_runs
                  /\ \A i \in 1..num_runs : returned[i] = requests[i].text

\* three requests answered r, s, r in that order
C20_Witness ==
    /\ pc = "returned"
    /\ num_runs = 3
    /\ returned = <<<<"r">>, <<"s">>, <<"r">>>>
    /\ Len(requests) = 3

---------------------------------------------------------------------------
(* log_session: the element tree, built, pretty-printed and written *)

\* an ElementTree element; a text or tail of None is the empty string
Element(tag, attrib, text, children) ==
    [tag |-> tag, attrib |-> attrib, text |-> text, tail |-> <<>>, children |-> children]

TagSessions == <<"s", "e", "s", "s", "i", "o", "n", "s">>
TagSession == <<"s", "e", "s", "s", "i", "o", "n">>
TagInitialPrompt == <<"i", "n", "i", "t", "i", "a", "l", "_", "p", "r", "o", "m", "p", "t">>
TagLlmParameters == <<"l", "l", "m", "_", "p", "a", "r", "a", "m", "e", "t", "e", "r", "s">>
TagPromptTemplate == <<"p", "r", "o", "m", "p", "t", "_", "t", "e", "m", "p", "l", "a", "t", "e">>
TagVariables == <<"v", "a", "r", "i", "a", "b", "l", "e", "s">>
TagRuns == <<"r", "u", "n", "s">>
TagRun == <<"r", "u", "n">>
TagRenderedPrompt == <<"r", "e", "n", "d", "e", "r", "e", "d", "_", "p", "r", "o", "m", "p", "t">>
TagOutput == <<"o", "u", "t", "p", "u", "t">>
TagEvaluation == <<"e", "v", "a", "l", "u", "a", "t", "i", "o", "n">>
TagInput == <<"i", "n", "p", "u", "t">>
TagPrompt == <<"p", "r", "o", "m", "p", "t">>
AttrDatetime == <<"d", "a", "t", "e", "t", "i", "m", "e">>
AttrNumRuns == <<"n", "u", "m", "_", "r", "u", "n", "s">>
AttrType == <<"t", "y", "p", "e">>
AttrPath == <<"p", "a", "t", "h">>
AttrRecursive == <<"r", "e", "c", "u", "r", "s", "i", "v", "e">>
AttrVarName == <<"v", "a", "r", "_", "n", "a", "m", "e">>
ApiKeyName == <<"a", "p", "i", "_", "k", "e", "y">>

\* str(True), str(False)
BoolStr(b) == IF b THEN <<"T", "r", "u", "e">> ELSE <<"F", "a", "l", "s", "e">>

\* the type of a dict value as a Python str
TypeStr(v) ==
    CASE v.type = "file" -> <<"f", "i", "l", "e">>
      [] v.type = "dir" -> <<"d", "i", "r">>
      [] v.type = "list" -> <<"l", "i", "s", "t">>
      [] v.type = "results" -> <<"r", "e", "s", "u", "l", "t", "s">>
      [] v.type = "initial_prompt" -> <<"i", "n", "i", "t", "i", "a", "l", "_", "p", "r", "o", "m", "p", "t">>

ParamLoggedAlways(param_name) == TRUE

\* if param_name != "api_key"
ParamLogged(param_name) == param_name # ApiKeyName

\* the children of <llm_parameters>
RECURSIVE ParamElems(_)
ParamElems(llm_params) ==
    IF llm_params = <<>> THEN <<>>
    ELSE (IF ParamLogged(Head(llm_params).k)
          THEN <<Element(Head(llm_params).k, <<>>, PyStr(Head(llm_params).v), <<>>)>>
          ELSE <<>>)
         \o ParamElems(Tail(llm_params))

Attr(k, v) == [k |-> k, v |-> v]

\* one child of <variables> of the initial section
VarElem(var_name, var_def) ==
    IF IsDict(var_def)
    THEN Element(var_name,
                 <<Attr(AttrType, TypeStr(var_def))>>
                 \o (IF "path" \in DOMAIN var_def
                     THEN <<Attr(AttrPath, var_def.path)>> ELSE <<>>)
                 \o (IF "recursive" \in DOMAIN var_def
                     THEN <<Attr(AttrRecursive, BoolStr(var_def.recursive))>> ELSE <<>>),
                 <<>>, <<>>)
    ELSE Element(var_name, <<>>, PyStr(var_def), <<>>)

\* one child of <variables> of the evaluation section
EvalVarElem(var_name, var_def) ==
    IF IsDict(var_def)
    THEN Element(var_name,
                 <<Attr(AttrType, TypeStr(var_def))>>
                 \o (IF "var_name" \in DOMAIN var_def
                     THEN <<Attr(AttrVarName, var_def.var_name)>> ELSE <<>>),
                 <<>>, <<>>)
    ELSE Element(var_name, <<>>, PyStr(var_def), <<>>)

RunElem(i, run) ==
    Element(TagRun \o IntToStr(i), <<>>, <<>>,
            <<Element(TagRenderedPrompt, <<>>, run.prompt, <<>>),
              Element(TagOutput, <<>>, run.output, <<>>)>>)

\* the <session> element of best_of_n.log_session
SessionBestOfN(sd, ts) ==
    Element(TagSession, <<Attr(AttrDatetime, ts)>>, <<>>,
        <<Element(TagInitialPrompt, <<Attr(AttrNumRuns, IntToStr(sd.num_runs))>>, <<>>,
              <<Element(TagLlmParameters, <<>>, <<>>, ParamElems(sd.llm_params)),
                Element(TagPromptTemplate, <<>>, sd.prompt_template, <<>>),
                Element(TagVariables, <<>>, <<>>,
                        [i \in 1..Len(sd.variables) |->
                            VarElem(sd.variables[i].k, sd.variables[i].v)]),
                Element(TagRuns, <<>>, <<>>,
                        [i \in 1..Len(sd.runs) |-> RunElem(i, sd.runs[i])])>>),
          Element(TagEvaluation, <<>>, <<>>,
              <<Element(TagPromptTemplate, <<>>, sd.eval_prompt_template, <<>>),
                Element(TagVariables, <<>>, <<>>,
                        [i \in 1..Len(sd.eval_variables) |->
                            EvalVarElem(sd.eval_variables[i].k, sd.eval_variables[i].v)]),
                Element(TagRenderedPrompt, <<>>, sd.eval_rendered_prompt, <<>>),
                Element(TagOutput, <<>>, sd.eval_output, <<>>)>>)>>)

\* the children of <variables> of one input of app3 that come from the combination
RECURSIVE PathElems(_)
PathElems(combo) ==
    IF combo = <<>> THEN <<>>
    ELSE (IF EndsWith(Head(combo).k, PathSuffix)
          THEN <<Element(Head(combo).k, <<>>, PyStr(Head(combo).v), <<>>)>>
          ELSE <<>>)
         \o PathElems(Tail(combo))

InputElem(i, input_data, llm_params) ==
    Element(TagInput \o IntToStr(i), <<>>, <<>>,
            <<Element(TagVariables, <<>>, <<>>,
                      PathElems(input_data.variables)
                      \o <<Element(TagLlmParameters, <<>>, <<>>, ParamElems(llm_params))>>),
              Element(TagPrompt, <<>>, input_data.prompt, <<>>),
              Element(TagOutput, <<>>, input_data.output, <<>>)>>)

\* the <session> element of app3.log_session
SessionApp3(sd, ts) ==
    Element(TagSession, <<Attr(AttrDatetime, ts)>>, <<>>,
            [i \in 1..Len(sd.inputs) |-> InputElem(i, sd.inputs[i], sd.llm_params)])

SessionElem(a, sd, ts) == IF a = "best_of_n" THEN SessionBestOfN(sd, ts) ELSE SessionApp3(sd, ts)

\* toprettyxml(indent="  "), newl "\n"
AddIndent == <<" ", " ">>
NewL == <<"\n">>

\* a text node written by toprettyxml between the children of an element:
\* a text that was there already is written once more on a line of its own
Between(old, innerIndent, nextIndent) ==
    NewL \o (IF old # <<>> THEN innerIndent \o old \o NewL ELSE <<>>) \o nextIndent

\* the element that ET.parse reads back from what toprettyxml wrote for e at
\* the given indent (the tail of e itself is written by its parent)
RECURSIVE PrettyTree(_, _)
PrettyTree(e, indent) ==
    IF e.children = <<>> THEN e
    ELSE LET inner == indent \o AddIndent
             n == Len(e.children)
         IN [e EXCEPT
                !.text = Between(e.text, inner, inner),
                !.children =
                    [k \in 1..n |->
                        [PrettyTree(e.children[k], inner) EXCEPT
                            !.tail = Between(e.children[k].tail, inner,
                                             IF k < n THEN inner ELSE indent)]]]

\* the last index of "/" in p, 0 when there is none
LastSlash(p) ==
    IF \E i \in 1..Len(p) : p[i] = "/"
    THEN CHOOSE i \in 1..Len(p) : p[i] = "/" /\ \A j \in (i + 1)..Len(p) : p[j] # "/"
    ELSE 0

RECURSIVE RStripSlash(_)
RStripSlash(s) ==
    IF s # <<>> /\ s[Len(s)] = "/" THEN RStripSlash(SubSeq(s, 1, Len(s) - 1)) ELSE s

\* os.path.dirname
DirName(p) ==
    LET head == SubSeq(p, 1, LastSlash(p))
    IN IF head # <<>> /\ \E i \in 1..Len(head) : head[i] # "/"
       THEN RStripSlash(head) ELSE head

\* the try block: the root parsed from the existing file, a new <sessions> when
\* there is no file, and a warning and a new <sessions> when parsing raises
OpenLog(store) ==
    CASE store.kind = "xml" -> [root |-> store.root, warned |-> FALSE]
      [] store.kind = "missing" ->
            [root |-> Element(TagSessions, <<>>, <<>>, <<>>), warned |-> FALSE]
      [] store.kind = "corrupt" ->
            [root |-> Element(TagSessions, <<>>, <<>>, <<>>), warned |-> TRUE]

\* log_session(log_file, session_data) on a file holding store, at local time ts:
\* os.makedirs("") raises, and nothing is written then
log_session(a, path, store, sd, ts) ==
    LET opened == OpenLog(store)
        root == [opened.root EXCEPT
                    !.children = Append(opened.root.children, SessionElem(a, sd, ts))]
    IN IF DirName(path) = <<>>
       THEN [store |-> store, warned |-> opened.warned, raised |-> TRUE]
       ELSE [store |-> [kind |-> "xml", root |-> PrettyTree(root, <<>>)],
             warned |-> opened.warned, raised |-> FALSE]

---------------------------------------------------------------------------
(* The log: calls of log_session on one path *)

\* calls of log_session on the path
MaxWrites == 2

\* a path with a parent directory, and a bare file name
LogPaths == {<<"l", "o", "g", "s", "/", "s", ".", "x", "m", "l">>, <<"s", ".", "x", "m", "l">>}

ApiKeys == {<<"K">>, <<"L">>}

LlmParams(key) ==
    <<[k |-> ApiKeyName, v |-> StrVal(key)],
      [k |-> <<"m", "o", "d", "e", "l">>, v |-> StrVal(<<"m">>)],
      [k |-> <<"m", "a", "x", "_", "t", "o", "k", "e", "n", "s">>, v |-> IntVal(1)]>>

LoggedVariables ==
    {<<[k |-> NameA, v |-> StrVal(<<"v">>)]>>,
     <<[k |-> NameA, v |-> [type |-> "dir", path |-> PathD, recursive |-> FALSE]],
       [k |-> NameAPath, v |-> StrVal(PathP)]>>}

LoggedOutputs == {<<"x">>, <<>>}

\* the session_data that main of best_of_n builds
SessionDatasBestOfN ==
    {[llm_params |-> LlmParams(key), num_runs |-> MinRuns,
      prompt_template |-> Placeholder(NameA), variables |-> vs,
      runs |-> [i \in 1..MinRuns |-> [prompt |-> <<"p">>, output |-> o]],
      eval_prompt_template |-> Placeholder(NameB),
      eval_variables |-> <<[k |-> NameB, v |-> [type |-> "results", var_name |-> TagOut]]>>,
      eval_rendered_prompt |-> XmlOutputs(TagOut, [i \in 1..MinRuns |-> o], 1),
      eval_output |-> <<"y">>] :
        key \in ApiKeys, vs \in LoggedVariables, o \in LoggedOutputs}

\* the session_data that main of app3 builds
SessionDatasApp3 ==
    {[llm_params |-> LlmParams(key),
      inputs |-> <<[variables |-> vs, prompt |-> <<"p">>, output |-> o]>>] :
        key \in ApiKeys, vs \in LoggedVariables, o \in LoggedOutputs}

SessionDatas(a) == IF a = "best_of_n" THEN SessionDatasBestOfN ELSE SessionDatasApp3

\* datetime.now() formatted, at the n-th call
Now(n) == <<"T">> \o IntToStr(n)

LogSession ==
    /\ pc = "log"
    /\ log_writes < MaxWrites
    /\ \E sd \in SessionDatas(app) :
           LET r == log_session(app, log_file, log_store, sd, Now(log_writes + 1))
           IN /\ session_data' = sd
              /\ log_store' = r.store
              /\ log_warned' = r.warned
              /\ log_raised' = r.raised
    /\ timestamp' = Now(log_writes + 1)
    /\ log_writes' = log_writes + 1
    /\ UNCHANGED <<pc, app, log_file, runVars, evalVars, batchVars>>
    /\ UNCHANGED mainVars

InitLog ==
    /\ pc = "log"
    /\ app \in Apps
    /\ RunIdle
    /\ EvalIdle
    /\ BatchIdle
    /\ log_file \in LogPaths
    /\ log_store \in {[kind |-> "missing"], [kind |-> "corrupt"]}
    /\ session_data = [llm_params |-> <<>>]
    /\ timestamp = <<>>
    /\ log_writes = 0
    /\ log_warned = FALSE
    /\ log_raised = FALSE
    /\ MainIdle

NextLog == LogSession

SpecLog == InitLog /\ [][NextLog]_vars

\* the <session> elements of the document at log_file
Sessions(store) == IF store.kind = "xml" THEN store.root.children ELSE <<>>

\* what the file holds from <session to </session>
Content(e) == [e EXCEPT !.tail = <<>>]

\* C4: a successful call of log_session adds the new session after the sessions
\* the document held, each of which keeps its content unchanged; on a missing
\* or unparseable file the document then holds the new session only.
C4_EarlierSessionsUnchanged ==
    [][(log_writes' = log_writes + 1 /\ ~log_raised') =>
          LET before == Sessions(log_store)
              after == Sessions(log_store')
          IN /\ Len(after) = Len(before) + 1
             /\ Content(after[Len(after)]) =
                    Content(PrettyTree(SessionElem(app, session_data', timestamp'),
                                       AddIndent))
             /\ \A i \in 1..Len(before) : Content(after[i]) = Content(before[i])
             /\ log_store.kind # "xml" => Len(after) = 1]_vars

WithApiKey(sd, key) ==
    [sd EXCEPT !.llm_params = DictSet(sd.llm_params, ApiKeyName, StrVal(key))]

RECURSIVE Elements(_)
Elements(e) == {e} \cup UNION {Elements(e.children[i]) : i \in 1..Len(e.children)}

\* no element or attribute of the tree is named api_key or holds the text key
Redacted(root, key) ==
    \A e \in Elements(root) :
        /\ e.tag # ApiKeyName
        /\ e.text # key
        /\ \A i \in 1..Len(e.attrib) : e.attrib[i].k # ApiKeyName /\ e.attrib[i].v # key

\* C5: what a call of log_session does is what it does with any other value of
\* the api_key parameter in its session_data, and the document it writes has no
\* element or attribute named api_key or holding the value of that parameter.
C5_IndependentOfApiKey ==
    [][log_writes' = log_writes + 1 =>
          /\ \A key \in ApiKeys :
                 log_session(app, log_file, log_store, WithApiKey(session_data', key),
                             timestamp')
                 = [store |-> log_store', warned |-> log_warned', raised |-> log_raised']
          /\ log_store'.kind = "xml" =>
                 Redacted(log_store'.root, DictGet(session_data'.llm_params, ApiKeyName).s)
      ]_vars

\* a document of two sessions written from session_data holding two different keys
C5_Witness ==
    /\ log_writes = 2
    /\ ~log_raised
    /\ Len(Sessions(log_store)) = 2
    /\ DictGet(session_data.llm_params, ApiKeyName) = StrVal(<<"L">>)
    /\ \E e \in Elements(log_store.root) :
           e.tag = TagLlmParameters /\ Len(e.children) = 2

\* C18: a call of log_session, on a path with a directory or on a bare file name,
\* does not raise, and the file then holds a document whose last session is the
\* new one.
C18_LogWrittenOnEveryPath ==
    log_writes > 0 =>
        /\ ~log_raised
        /\ log_store.kind = "xml"
        /\ Len(Sessions(log_store)) > 0
        /\ Content(Sessions(log_store)[Len(Sessions(log_store))]) =
               Content(PrettyTree(SessionElem(app, session_data, timestamp), AddIndent))

---------------------------------------------------------------------------
(* main: one run of an application, from the button to the log *)

CredentialNeverMissing(key) == FALSE

\* if not api_key
CredentialMissing(key) == key = <<>>

\* os.path.basename
BaseName(p) == SubSeq(p, LastSlash(p) + 1, Len(p))

\* the last index of "." in s, 0 when there is none
LastDot(s) ==
    IF \E i \in 1..Len(s) : s[i] = "."
    THEN CHOOSE i \in 1..Len(s) : s[i] = "." /\ \A j \in (i + 1)..Len(s) : s[j] # "."
    ELSE 0

\* get_log_filename(base_path, append_datetime) at a time formatted as datetime_str
get_log_filename(base_path, append, datetime_str) ==
    IF ~append THEN base_path
    ELSE LET directory == DirName(base_path)
             filename == BaseName(base_path)
             dot == LastDot(filename)
             new_filename ==
                 IF dot > 0
                 THEN SubSeq(filename, 1, dot - 1) \o <<"_">> \o datetime_str \o <<".">>
                      \o SubSeq(filename, dot + 1, Len(filename))
                 ELSE filename \o <<"_">> \o datetime_str
         IN IF directory = <<>> THEN new_filename ELSE PathJoin(directory, new_filename)

\* what call_llm returns for an outcome of client.messages.create
call_llm(outcome) == IF outcome.ok THEN outcome.text ELSE ErrorCallingLLM \o outcome.text

CallOutcomes ==
    {[ok |-> TRUE, text |-> r] : r \in {<<"r">>, <<"s">>}}
    \cup {[ok |-> FALSE, text |-> e] : e \in ServiceErrors}

Request(p, outcome) == [prompt |-> p, ok |-> outcome.ok, text |-> outcome.text]

\* the llm_params that main of app3 logs
LlmParamsApp3(key, max) ==
    LlmParams(key) \o <<[k |-> <<"m", "a", "x", "_", "i", "t", "e", "r", "a", "t", "i", "o", "n", "s">>, v |-> IntVal(max)]>>

Min(a, b) == IF a < b THEN a ELSE b

\* the credential check at the head of the run
CheckCredential ==
    /\ pc = "main"
    /\ pc' = IF CredentialMissing(api_key) THEN "halted" ELSE "start"
    /\ UNCHANGED <<app, runVars, evalVars, batchVars, logVars, mainVars>>

\* if not combinations: st.error and return
NoCombinationsFound ==
    /\ pc = "expanded"
    /\ ~combinations.raised
    /\ combinations.combos = <<>>
    /\ pc' = "halted"
    /\ UNCHANGED <<app, runVars, evalVars, batchVars, logVars, mainVars>>

\* app3: limit the combinations to max_iterations, with a warning
LimitCombinations ==
    /\ pc = "expanded"
    /\ app = "app3"
    /\ ~combinations.raised
    /\ combinations.combos # <<>>
    /\ truncation_warned' = (Len(combinations.combos) > max_iterations)
    /\ processed' = SubSeq(combinations.combos, 1,
                           Min(Len(combinations.combos), max_iterations))
    /\ pc' = "loop"
    /\ UNCHANGED <<app, runVars, evalVars, batchVars, logVars>>
    /\ UNCHANGED <<api_key, max_iterations, append_datetime, eval_var_definitions,
                   run_data, eval_output>>

\* app3: one turn of the loop over the combinations: render, call, record
RunCombination ==
    /\ pc = "loop"
    /\ Len(run_data) < Len(processed)
    /\ LET combo == processed[Len(run_data) + 1]
           text == render_template(app, template, combo)
       IN /\ rendered' = Append(rendered, text)
          /\ \E outcome \in CallOutcomes :
                 /\ requests' = Append(requests, Request(text, outcome))
                 /\ run_data' = Append(run_data,
                        [variables |-> combo, prompt |-> text, output |-> call_llm(outcome)])
    /\ pc' = IF Len(run_data) + 1 = Len(processed) THEN "log_run" ELSE "loop"
    /\ UNCHANGED <<app, var_definitions, variables, fs, combinations, template>>
    /\ UNCHANGED <<evalVars, logVars, prompt, num_runs, batch_results, returned>>
    /\ UNCHANGED <<api_key, max_iterations, append_datetime, eval_var_definitions,
                   processed, truncation_warned, eval_output>>

\* best_of_n: the first combination only is rendered and given to batch_call_llm
FirstCombination ==
    /\ pc = "expanded"
    /\ app = "best_of_n"
    /\ ~combinations.raised
    /\ combinations.combos # <<>>
    /\ processed' = <<combinations.combos[1]>>
    /\ LET text == render_template(app, template, combinations.combos[1])
       IN /\ rendered' = <<text>>
          /\ rendered_prompt' = text
          /\ prompt' = text
    /\ pc' = "batch"
    /\ UNCHANGED <<app, var_definitions, variables, fs, combinations, template>>
    /\ UNCHANGED <<eval_prompt_template, eval_variables, outputs, eval_rendered_prompt>>
    /\ UNCHANGED <<logVars, num_runs, batch_results, requests, returned>>
    /\ UNCHANGED <<api_key, max_iterations, append_datetime, eval_var_definitions,
                   truncation_warned, run_data, eval_output>>

\* best_of_n: the outputs are recorded and the evaluation prompt is made
Evaluate ==
    /\ pc = "returned"
    /\ outputs' = returned
    /\ run_data' = [i \in 1..Len(returned) |-> [prompt |-> rendered_prompt,
                                                output |-> returned[i]]]
    /\ LET parsed == parse_variable_definitions(app, eval_var_definitions)
       IN /\ eval_variables' = parsed
          /\ eval_rendered_prompt' =
                 process_special_variables(eval_prompt_template, parsed, rendered_prompt,
                                           returned)
    /\ pc' = "evaluate"
    /\ UNCHANGED <<app, runVars, batchVars, logVars, eval_prompt_template, rendered_prompt>>
    /\ UNCHANGED <<api_key, max_iterations, append_datetime, eval_var_definitions,
                   processed, truncation_warned, eval_output>>

\* best_of_n: call_llm on the evaluation prompt
EvalCall ==
    /\ pc = "evaluate"
    /\ \E outcome \in CallOutcomes :
           /\ requests' = Append(requests, Request(eval_rendered_prompt, outcome))
           /\ eval_output' = call_llm(outcome)
    /\ pc' = "log_run"
    /\ UNCHANGED <<app, runVars, evalVars, logVars, prompt, num_runs, batch_results, returned>>
    /\ UNCHANGED <<api_key, max_iterations, append_datetime, eval_var_definitions,
                   processed, truncation_warned, run_data>>

\* the session_data main has at the end of the run
RunSessionData ==
    IF app = "best_of_n"
    THEN [llm_params |-> LlmParams(api_key), num_runs |-> num_runs,
          prompt_template |-> template, variables |-> variables, runs |-> run_data,
          eval_prompt_template |-> eval_prompt_template,
          eval_variables |-> eval_variables,
          eval_rendered_prompt |-> eval_rendered_prompt, eval_output |-> eval_output]
    ELSE [llm_params |-> LlmParamsApp3(api_key, max_iterations), inputs |-> run_data]

\* the file name stamp of the clock when the run is logged
FileStamp == <<"0", "4", "N", "o", "v", "2", "0", "2", "6", "_", "1", "0", "-", "0", "0", "-", "0", "0">>

\* the try around get_log_filename and log_session: a raise is reported, not passed on
LogRun ==
    /\ pc = "log_run"
    /\ LET final_log_file == get_log_filename(log_file, append_datetime, FileStamp)
           r == log_session(app, final_log_file, log_store, RunSessionData,
                            Now(log_writes + 1))
       IN /\ session_data' = RunSessionData
          /\ log_store' = r.store
          /\ log_warned' = r.warned
          /\ log_raised' = r.raised
    /\ timestamp' = Now(log_writes + 1)
    /\ log_writes' = log_writes + 1
    /\ pc' = "done"
    /\ UNCHANGED <<app, log_file, runVars, evalVars, batchVars, mainVars>>

\* the most combinations the operator of app3 lets a run process
MaxIterations == 2

ListNone == <<"$", "$", "l", "i", "s", "t", "(", "[", "]", ")">>

\* the definitions of a run: one directory, a literal, two directories, an empty list
RunDefStrings ==
    {Decl(NameA, DirD), Decl(NameA, QuotedWater),
     Decl(NameA, DirD) \o <<",">> \o Decl(NameB, DirD), Decl(NameA, ListNone)}

\* outputs=$$results(Out), initial_prompt=$$initial_prompt() with the names a and b
RunEvalDefinitions == Decl(NameA, ResultsOut) \o <<",", " ">> \o Decl(NameB, InitialPromptForm)

InitRun ==
    /\ pc = "main"
    /\ app \in Apps
    /\ api_key \in {<<>>, <<"K">>}
    /\ var_definitions \in RunDefStrings
    /\ variables = <<>>
    /\ fs \in {FsTwoFiles, FsUnlistableDir}
    /\ combinations = NoCombinations
    /\ template = Placeholder(NameA)
    /\ rendered = <<>>
    /\ eval_prompt_template =
           IF app = "best_of_n" THEN Placeholder(NameB) \o Placeholder(NameA) ELSE <<>>
    /\ eval_var_definitions = IF app = "best_of_n" THEN RunEvalDefinitions ELSE <<>>
    /\ eval_variables = <<>>
    /\ rendered_prompt = <<>>
    /\ outputs = <<>>
    /\ eval_rendered_prompt = <<>>
    /\ eval_output = <<>>
    /\ prompt = <<>>
    /\ num_runs \in IF app = "best_of_n" THEN MinRuns..MaxRuns ELSE {0}
    /\ batch_results = <<>>
    /\ requests = <<>>
    /\ returned = <<>>
    /\ max_iterations \in IF app = "app3" THEN 1..MaxIterations ELSE {0}
    /\ append_datetime \in BOOLEAN
    /\ processed = <<>>
    /\ truncation_warned = FALSE
    /\ run_data = <<>>
    /\ log_file \in LogPaths
    /\ log_store = [kind |-> "missing"]
    /\ session_data = [llm_params |-> <<>>]
    /\ timestamp = <<>>
    /\ log_writes = 0
    /\ log_warned = FALSE
    /\ log_raised = FALSE

NextRun ==
    \/ CheckCredential
    \/ Parse
    \/ Expand
    \/ NoCombinationsFound
    \/ LimitCombinations
    \/ RunCombination
    \/ FirstCombination
    \/ BatchCallOk
    \/ BatchCallFail
    \/ BatchReturn
    \/ Evaluate
    \/ EvalCall
    \/ LogRun

SpecRun == InitRun /\ [][NextRun]_vars

---------------------------------------------------------------------------
(* Properties of a run *)

\* C16: in both applications a run whose credential is empty halts before any
\* work: no definitions are parsed, no model call is issued and no log is
\* written; conversely a run that issued a model call has a credential.
C16_EmptyCredentialHalts ==
    /\ api_key = <<>> =>
           /\ pc \in {"main", "halted"}
           /\ variables = <<>>
           /\ combinations = NoCombinations
           /\ requests = <<>>
           /\ log_writes = 0
           /\ log_store.kind = "missing"
    /\ requests # <<>> => api_key # <<>>

\* a run with an empty credential has been halted by the credential test of main
C16_Witness == pc = "halted" /\ api_key = <<>> /\ var_definitions = Decl(NameA, DirD)

\* the prompt/output records log_session is given, in the order of the session
LoggedRecords(sd) ==
    IF app = "best_of_n"
    THEN [i \in 1..Len(sd.runs) |-> [prompt |-> sd.runs[i].prompt,
                                     output |-> sd.runs[i].output]]
         \o <<[prompt |-> sd.eval_rendered_prompt, output |-> sd.eval_output]>>
    ELSE [i \in 1..Len(sd.inputs) |-> [prompt |-> sd.inputs[i].prompt,
                                       output |-> sd.inputs[i].output]]

\* one record per model request, in request order: the prompt sent and the text
\* returned, or the error string of a call that failed
RequestRecords ==
    [i \in 1..Len(requests) |-> [prompt |-> requests[i].prompt,
                                 output |-> call_llm(requests[i])]]

\* C17: in a run that passes the credential check and has a combination,
\* log_session is invoked once, after the last model call, and is given one
\* prompt/output record per model request in request order, a failed call
\* contributing its error string as the output.
C17_OneRecordPerRequest ==
    /\ log_writes <= 1
    /\ log_writes = 1 <=> pc = "done"
    /\ pc = "done" => LoggedRecords(session_data) = RequestRecords

IsPrefix(p, q) == Len(p) <= Len(q) /\ p = SubSeq(q, 1, Len(p))

\* the caller has chosen the combinations it processes
Limited == pc \in {"loop", "batch", "returned", "evaluate", "log_run", "done"}

\* C19: in both callers of expand_variables the combinations processed are a
\* prefix of the produced sequence, no longer than the maximum the operator
\* configured, and a warning is given whenever fewer are processed than produced.
C19_TruncatedWithWarning ==
    Limited =>
        /\ IsPrefix(processed, combinations.combos)
        /\ app = "app3" => Len(processed) <= max_iterations
        /\ Len(processed) < Len(combinations.combos) => truncation_warned

---------------------------------------------------------------------------
(* The order and the companions of the combinations of expand_variables *)

\* the values and the paths a variable iterates over: the elements of its list,
\* or the readable files of its directory in the order of the enumeration
Iterated(f, v) ==
    IF v.type = "list" THEN [values |-> v.elements, paths |-> v.elements]
    ELSE ReadAll(f, IF v.recursive THEN Walk(f, v.path) ELSE ListTop(f, v.path).paths)

\* the number of combinations of the variables declared after variable j
Later(f, vs, j) == ProductOfSizes(f, SubSeq(vs, j + 1, Len(vs)))

\* in the lexicographic order of the product, first-declared most significant,
\* the index of the value that combination k takes from variable j
IndexIn(f, vs, k, j) == (((k - 1) \div Later(f, vs, j)) % SizeOf(f, vs[j].v)) + 1

\* an iterating variable declared after variable j writes the entry named key
WrittenLater(f, vs, j, key) ==
    \E i \in (j + 1)..Len(vs) :
        IsIterating(f, vs[i].v) /\ key \in {vs[i].k, vs[i].k \o PathSuffix}

\* a fixed variable is declared under the name key
FixedNamed(f, vs, key) == \E i \in 1..Len(vs) : ~IsIterating(f, vs[i].v) /\ vs[i].k = key

\* C21: the sequence returned by expand_variables is the Cartesian product of the
\* iterating variables in lexicographic order: combination k takes from the
\* variable declared j-th the value whose index is the j-th digit of k - 1, the
\* first-declared variable being the most significant digit, and the values of
\* a variable are indexed in the order of its list or directory enumeration.
\* The value is read at the variable's name and at its _path companion, each
\* where no variable declared later and no fixed variable writes that entry.
C21_LexicographicOrder ==
    Expanded =>
        /\ Len(combinations.combos) = ProductOfSizes(fs, variables)
        /\ \A j \in 1..Len(variables) : IsIterating(fs, variables[j].v) =>
               \A k \in 1..Len(combinations.combos) :
                   LET own == Iterated(fs, variables[j].v)
                       i == IndexIn(fs, variables, k, j)
                       name == variables[j].k
                       combo == combinations.combos[k]
                   IN /\ ~WrittenLater(fs, variables, j, name) =>
                             /\ DictHas(combo, name)
                             /\ DictGet(combo, name) = own.values[i]
                      /\ (/\ ~WrittenLater(fs, variables, j, name \o PathSuffix)
                          /\ ~FixedNamed(fs, variables, name \o PathSuffix)) =>
                             /\ DictHas(combo, name \o PathSuffix)
                             /\ DictGet(combo, name \o PathSuffix) = own.paths[i]

\* two iterating variables of two values each gave four combinations: the
\* first-declared changes its value once, the last-declared at every step
C21_Witness ==
    /\ Expanded
    /\ Len(variables) = 2
    /\ IsIterating(fs, variables[1].v) /\ SizeOf(fs, variables[1].v) = 2
    /\ IsIterating(fs, variables[2].v) /\ SizeOf(fs, variables[2].v) = 2
    /\ variables[1].k = NameA /\ variables[2].k = NameB
    /\ variables[1].v.type = "dir" /\ variables[2].v.type = "list"
    /\ Len(combinations.combos) = 4
    /\ DictGet(combinations.combos[1], NameA) = DictGet(combinations.combos[2], NameA)
    /\ DictGet(combinations.combos[2], NameA) # DictGet(combinations.combos[3], NameA)
    /\ DictGet(combinations.combos[1], NameB) # DictGet(combinations.combos[2], NameB)

\* C22: in every combination returned by expand_variables, whatever other
\* variables are declared, each iterating variable is bound to one of its own
\* values, and the entry <name>_path holds the file path or list element that
\* this value came from.
C22_CompanionOfOwnValue ==
    Expanded =>
        \A j \in 1..Len(variables) : IsIterating(fs, variables[j].v) =>
            \A c \in Combos :
                LET own == Iterated(fs, variables[j].v)
                    name == variables[j].k
                IN /\ DictHas(c, name)
                   /\ DictHas(c, name \o PathSuffix)
                   /\ \E i \in 1..Len(own.values) :
                          /\ DictGet(c, name) = own.values[i]
                          /\ DictGet(c, name \o PathSuffix) = own.paths[i]

---------------------------------------------------------------------------
(* The outputs inside the text of process_special_variables *)

\* output i between its own numbered tags
ExpectedBlock(tagName, i, output) ==
    Concat(<< <<"<">>, tagName, IntToStr(i), <<">">>, <<"\n">>, output, <<"\n">>,
              <<"<", "/">>, tagName, IntToStr(i), <<">">>, <<"\n">> >>)

\* C23: in the text returned by process_special_variables every output stands
\* unmodified between its own numbered tags wherever a results variable is
\* substituted, whatever placeholder-like text the output holds, and the result
\* is the same for every declaration order of the evaluation variables (the
\* initial prompt here holds no placeholder text, so only an output can be
\* rewritten).
C23_OutputsVerbatim ==
    (Resolved /\ ~Contains(rendered_prompt, Open2)) =>
        /\ \A e \in Entries(eval_variables) :
               (e.v.type = "results" /\ Contains(eval_prompt_template, Placeholder(e.k)))
               => \A i \in 1..Len(outputs) :
                      Contains(eval_rendered_prompt,
                               ExpectedBlock(e.v.var_name, i, outputs[i]))
        /\ \A other \in Orderings(eval_variables) :
               process_special_variables(eval_prompt_template, other, rendered_prompt,
                                         outputs) = eval_rendered_prompt

====
